---------------------------- MODULE Spec2Model ----------------------------
(***************************************************************************)
(* Model of demo/ui/components/websocket_poller.js: the <websocket-poller> *)
(* custom element.  The element keeps one slot, this.ws, for a browser     *)
(* WebSocket; every socket it constructs carries an onmessage handler that *)
(* decodes the frame with JSON.parse and dispatches a MesopEvent, and an   *)
(* onclose handler that arms a 1000 ms timeout which calls                 *)
(* connectWebSocket again.  The browser side (readyState of each socket,   *)
(* the event loop's timers, window.location) is the environment.           *)
(***************************************************************************)
EXTENDS Integers, Sequences, FiniteSets, TLC

\* ------------------------------------------------------------- bounds ----
\* connectedCallback calls the host makes in one run
MaxMounts == 2
\* frames the server sends in one run
MaxFrames == 2
\* granularity of the clock: one Tick lets this many milliseconds pass
TickMs == 500
\* close events in one run in which the sockets and timeouts are counted
MaxCloseEvents == 3

\* --------------------------------------------------- program constants ----
\* setTimeout(..., 1000)
ReconnectDelay == 1000

\* Socket objects that can be alive (not garbage) at once.  Every mount starts
\* one chain socket -> close event -> timeout -> socket -> ..., a socket is
\* garbage once the timeout of its onclose has run (this.ws is overwritten by
\* then), so a chain holds one socket at a time and the sockets are named by
\* their chain: the socket a timeout constructs takes over the name of the
\* socket whose onclose armed it.
SocketIds == 1..MaxMounts
\* this.ws = null
null == 0
\* no timeout armed
NoTimer == -1

VARIABLES
  ws,           \* this.ws: null or the socket most recently constructed
  readyState,   \* socket -> "NONE" (no such object) or WebSocket.readyState
  url,          \* this.ws.url: the URL the socket in this.ws was constructed with
  closeCalled,  \* sockets on which close() started the closing handshake
  timer,        \* socket -> ms left on the timeout its onclose armed, or NoTimer
  elapsed,      \* socket -> ms since its close event (up to ReconnectDelay), or NoTimer
  lifecycle,    \* "created", "connected" or "disconnected"
  mounts,       \* number of connectedCallback calls so far
  closedConnecting, \* the last disconnectedCallback closed a CONNECTING socket
  location,     \* window.location
  triggerEvent, \* the element's triggerEvent property
  received,     \* frames handed to onmessage, in order of arrival
  dispatched,   \* MesopEvents dispatched by the element, in order
  uncaught,     \* exceptions that left a message callback
  thrown,       \* an exception left connectedCallback/disconnectedCallback
  lastAttempt,  \* connectWebSocket call made by the latest step: who made it,
                \* and this.ws.url as it was before the call
  tally         \* how many sockets were constructed, close events fired,
                \* timeouts armed and timeouts run so far (CountSpec counts)

vars == <<ws, readyState, url, closeCalled, timer, elapsed, lifecycle, mounts, closedConnecting,
          location, triggerEvent, received, dispatched, uncaught, thrown,
          lastAttempt, tally>>

\* ------------------------------------------------------------ JSON.parse ----
\* A frame's text is a sequence of lexical tokens.
Punct(c) == [tok |-> c, text |-> c]
Str(s) == [tok |-> "string", text |-> s]
Num(n) == [tok |-> "number", text |-> n]
Word(w) == [tok |-> "word", text |-> w]

\* Decoded values, all of one shape.
JScalar(k, t) == [kind |-> k, text |-> t, members |-> <<>>]
JObject(ms) == [kind |-> "object", text |-> "", members |-> ms]
SyntaxError == [ok |-> FALSE, value |-> JScalar("undefined", ""), next |-> 0]
Parsed(v, n) == [ok |-> TRUE, value |-> v, next |-> n]

JsonLiterals == {"null", "true", "false"}

RECURSIVE ParseValue(_, _)
RECURSIVE ParseMembers(_, _, _)
\* members after the opening brace or a comma: STRING ":" value, then "," or "}"
ParseMembers(toks, i, acc) ==
  IF i + 1 > Len(toks) \/ toks[i].tok # "string" \/ toks[i + 1].tok # ":"
  THEN SyntaxError
  ELSE LET v == ParseValue(toks, i + 2) IN
       IF ~v.ok \/ v.next > Len(toks) THEN SyntaxError
       ELSE LET ms == Append(acc, <<toks[i].text, v.value>>) IN
            IF toks[v.next].tok = "}" THEN Parsed(JObject(ms), v.next + 1)
            ELSE IF toks[v.next].tok = "," THEN ParseMembers(toks, v.next + 1, ms)
            ELSE SyntaxError

\* one JSON value starting at token i
ParseValue(toks, i) ==
  IF i > Len(toks) THEN SyntaxError
  ELSE LET t == toks[i] IN
       IF t.tok = "string" THEN Parsed(JScalar("string", t.text), i + 1)
       ELSE IF t.tok = "number" THEN Parsed(JScalar("number", t.text), i + 1)
       ELSE IF t.tok = "word" /\ t.text \in JsonLiterals
            THEN Parsed(JScalar(t.text, t.text), i + 1)
       ELSE IF t.tok = "{"
            THEN IF i + 1 <= Len(toks) /\ toks[i + 1].tok = "}"
                 THEN Parsed(JObject(<<>>), i + 2)
                 ELSE ParseMembers(toks, i + 1, <<>>)
       ELSE SyntaxError

\* JSON.parse(text): the whole text must be one value
JSONParse(toks) ==
  LET r == ParseValue(toks, 1) IN
  IF r.ok /\ r.next = Len(toks) + 1 THEN r ELSE SyntaxError

\* The frames the server may send.
PingFrame == <<Punct("{"), Str("type"), Punct(":"), Str("ping"), Punct("}")>>
NotJsonFrame == <<Word("not-json")>>
NullFrame == <<Word("null")>>
Frames == {PingFrame, NotJsonFrame, NullFrame}


\* ---------------------------------------------------- connectWebSocket ----
PageProtocols == {"http:", "https:"}
PageHosts == {"example.test"}
Locations == [protocol : PageProtocols, host : PageHosts]

\* a wsProtocol that never mirrors a secure page
wsProtocolInsecure(loc) == "ws:"

\* const wsProtocol = window.location.protocol === 'https:' ? 'wss:' : 'ws:';
wsProtocol(loc) == IF loc.protocol = "https:" THEN "wss:" ELSE "ws:"

\* const wsUrl = `${wsProtocol}//${window.location.host}/__ws__`; kept as the
\* parts the URL parser splits the text into
wsUrl(loc) == [protocol |-> wsProtocol(loc), host |-> loc.host, pathname |-> "/__ws__"]

NoUrl == [protocol |-> "", host |-> "", pathname |-> ""]

\* the latest step called connectWebSocket not at all
NoAttempt == [by |-> "none", was |-> NoUrl]

\* the names the host may give the triggerEvent property
TriggerEvents == {"on_message", "on_update"}

\* new WebSocket(url) throws a SyntaxError unless the URL has a ws/wss scheme
\* and a host; otherwise it returns a socket in readyState CONNECTING
WebSocketAccepts(u) == u.protocol \in {"ws:", "wss:"} /\ u.host # ""

\* a connectWebSocket that constructs nothing while the socket in this.ws is
\* not CLOSED
connectWebSocketUnlessLive(by, h) ==
  /\ lastAttempt' = [by |-> by, was |-> url]
  /\ IF ws = null \/ readyState[ws] = "CLOSED"
     THEN /\ ws' = h
          /\ readyState' = [readyState EXCEPT ![h] = "CONNECTING"]
          /\ url' = wsUrl(location)
     ELSE UNCHANGED <<ws, readyState, url>>
  /\ thrown' = thrown

\* connectWebSocket() called by `by` ("mount" or "timer"); h names the socket
\* that new WebSocket(wsUrl) returns
connectWebSocket(by, h) ==
  LET u == wsUrl(location)
      rs == readyState
  IN  /\ lastAttempt' = [by |-> by, was |-> url]
      /\ IF WebSocketAccepts(u)
         THEN /\ ws' = h
              /\ readyState' = [rs EXCEPT ![h] = "CONNECTING"]
              /\ url' = u
              /\ thrown' = thrown
         ELSE /\ ws' = ws
              /\ readyState' = rs
              /\ url' = url
              /\ thrown' = (thrown \/ by = "mount")

\* ----------------------------------------------------------- handlers ----
\* a MesopEvent built with a fixed name instead of this.triggerEvent
MesopEventUntagged(name, data) == [type |-> "message", action |-> data]

\* new MesopEvent(this.triggerEvent, {action: data})
MesopEvent(name, data) == [type |-> name, action |-> data]

\* an onmessage that dispatches whatever the decoding left, also on an error
onmessageDispatchesOnError(raw, sent) ==
  Append(sent, [type |-> triggerEvent, action |-> JSONParse(raw).value])

\* this.ws.onmessage: what the element has dispatched after the handler ran
\* on `raw`, given what it had dispatched before
onmessage(raw, sent) ==
  LET data == JSONParse(raw) IN
  IF data.ok THEN Append(sent, MesopEvent(triggerEvent, data.value)) ELSE sent

\* whether JSON.parse(event.data) throws out of the handler
onmessageThrows(raw) == ~JSONParse(raw).ok

\* setTimeout(callback, delay) for the socket whose handler runs
setTimeout(tm, h, delay) == [tm EXCEPT ![h] = delay]

\* an onclose that retries after half the delay
oncloseHalfDelay(tm, h) == setTimeout(tm, h, ReconnectDelay \div 2)

\* an onclose that schedules nothing
oncloseNoRetry(tm, h) == tm

\* this.ws.onclose
onclose(tm, h) == setTimeout(tm, h, ReconnectDelay)

\* WebSocket.close(): starts the closing handshake of a socket that is
\* CONNECTING or OPEN, and does nothing on one that is CLOSING or CLOSED
WebSocketClose(rs, h) ==
  IF rs[h] \in {"CONNECTING", "OPEN"} THEN [rs EXCEPT ![h] = "CLOSING"] ELSE rs

\* ---------------------------------------------------------------- Init ----
Init ==
  /\ ws = null
  /\ readyState = [h \in SocketIds |-> "NONE"]
  /\ url = NoUrl
  /\ closeCalled = {}
  /\ timer = [h \in SocketIds |-> NoTimer]
  /\ elapsed = [h \in SocketIds |-> NoTimer]
  /\ lifecycle = "created"
  /\ mounts = 0
  /\ closedConnecting = FALSE
  /\ location \in Locations
  /\ triggerEvent \in TriggerEvents
  /\ received = <<>>
  /\ dispatched = <<>>
  /\ uncaught = 0
  /\ thrown = FALSE
  /\ lastAttempt = NoAttempt
  /\ tally = [constructed |-> 0, closes |-> 0, armed |-> 0, fired |-> 0]

\* ------------------------------------------------------------- actions ----
\* connectedCallback(): the host inserted the element into a document
connectedCallback ==
  /\ lifecycle # "connected"
  /\ mounts < MaxMounts
  /\ lifecycle' = "connected"
  /\ mounts' = mounts + 1
  /\ closedConnecting' = FALSE
  /\ connectWebSocket("mount", mounts + 1)
  /\ UNCHANGED <<closeCalled, timer, elapsed, location, triggerEvent, received,
                 dispatched, uncaught>>

\* a disconnectedCallback without the `if (this.ws)` guard: this.ws.close() on
\* null is a TypeError
disconnectedCallbackUnguarded ==
  /\ lifecycle # "disconnected"
  /\ lifecycle' = "disconnected"
  /\ closedConnecting' = (ws # null /\ readyState[ws] = "CONNECTING")
  /\ IF ws # null
     THEN /\ readyState' = WebSocketClose(readyState, ws)
          /\ closeCalled' = IF readyState[ws] \in {"CONNECTING", "OPEN"}
                            THEN closeCalled \cup {ws} ELSE closeCalled
          /\ thrown' = thrown
     ELSE /\ UNCHANGED <<readyState, closeCalled>>
          /\ thrown' = TRUE
  /\ lastAttempt' = NoAttempt
  /\ UNCHANGED <<ws, url, timer, elapsed, mounts, location, triggerEvent, received,
                 dispatched, uncaught>>

\* disconnectedCallback(): the host removed the element (or tears down an
\* element it never inserted)
disconnectedCallback ==
  /\ lifecycle # "disconnected"
  /\ lifecycle' = "disconnected"
  /\ closedConnecting' = (ws # null /\ readyState[ws] = "CONNECTING")
  /\ IF ws # null
     THEN /\ readyState' = WebSocketClose(readyState, ws)
          /\ closeCalled' = IF readyState[ws] \in {"CONNECTING", "OPEN"}
                            THEN closeCalled \cup {ws} ELSE closeCalled
     ELSE UNCHANGED <<readyState, closeCalled>>
  /\ lastAttempt' = NoAttempt
  /\ UNCHANGED <<ws, url, timer, elapsed, mounts, location, triggerEvent, received,
                 dispatched, uncaught, thrown>>

\* the opening handshake of socket h succeeded (the element sets no onopen)
SocketOpened(h) ==
  /\ readyState[h] = "CONNECTING"
  /\ readyState' = [readyState EXCEPT ![h] = "OPEN"]
  /\ lastAttempt' = NoAttempt
  /\ UNCHANGED <<ws, url, closeCalled, timer, elapsed, lifecycle, mounts, closedConnecting,
                 location, triggerEvent, received, dispatched, uncaught, thrown>>

\* the close event of socket h: readyState becomes CLOSED and onclose runs
CloseEvent(h) ==
  /\ readyState' = [readyState EXCEPT ![h] = "CLOSED"]
  /\ timer' = onclose(timer, h)
  /\ elapsed' = [elapsed EXCEPT ![h] = 0]
  /\ lastAttempt' = NoAttempt
  /\ UNCHANGED <<ws, url, closeCalled, lifecycle, mounts, closedConnecting, location,
                 triggerEvent, received, dispatched, uncaught, thrown>>

\* a failed attempt that ends the socket without running onclose
ConnectionFailedSilently(h) ==
  /\ readyState[h] = "CONNECTING"
  /\ readyState' = [readyState EXCEPT ![h] = "CLOSED"]
  /\ lastAttempt' = NoAttempt
  /\ UNCHANGED <<ws, url, closeCalled, timer, elapsed, lifecycle, mounts,
                 closedConnecting, location, triggerEvent, received, dispatched,
                 uncaught, thrown>>

\* the connection attempt of h failed (refused, unreachable)
ConnectionFailed(h) ==
  /\ readyState[h] = "CONNECTING"
  /\ CloseEvent(h)

\* the server closed the connection of h, or the network dropped it
ConnectionLost(h) ==
  /\ readyState[h] = "OPEN"
  /\ CloseEvent(h)

\* the closing handshake that close() started on h is over
CloseCompleted(h) ==
  /\ readyState[h] = "CLOSING"
  /\ CloseEvent(h)

\* a frame arrives on socket h: the browser fires the message event only on
\* an OPEN socket
MessageEvent(h, raw) ==
  /\ readyState[h] = "OPEN"
  /\ Len(received) < MaxFrames
  /\ received' = Append(received, raw)
  /\ dispatched' = onmessage(raw, dispatched)
  /\ uncaught' = IF onmessageThrows(raw) THEN uncaught + 1 ELSE uncaught
  /\ lastAttempt' = NoAttempt
  /\ UNCHANGED <<ws, readyState, url, closeCalled, timer, elapsed, lifecycle, mounts,
                 closedConnecting, location, triggerEvent, thrown>>

\* TickMs milliseconds pass
Tick ==
  /\ \E h \in SocketIds : timer[h] > 0
  /\ timer' = [h \in SocketIds |->
                 IF timer[h] > TickMs THEN timer[h] - TickMs
                 ELSE IF timer[h] > 0 THEN 0 ELSE timer[h]]
  /\ elapsed' = [h \in SocketIds |->
                   IF elapsed[h] = NoTimer THEN NoTimer
                   ELSE IF elapsed[h] + TickMs < ReconnectDelay
                        THEN elapsed[h] + TickMs ELSE ReconnectDelay]
  /\ lastAttempt' = NoAttempt
  /\ UNCHANGED <<ws, readyState, url, closeCalled, lifecycle, mounts, closedConnecting,
                 location, triggerEvent, received, dispatched, uncaught, thrown>>

\* the timeout armed by the onclose of h is due: () => this.connectWebSocket().
\* Nothing refers to h afterwards (this.ws is overwritten), so h is garbage.
TimerFire(h) ==
  /\ timer[h] = 0
  /\ timer' = [timer EXCEPT ![h] = NoTimer]
  /\ elapsed' = [elapsed EXCEPT ![h] = NoTimer]
  /\ closeCalled' = closeCalled \ {h}
  /\ connectWebSocket("timer", h)
  /\ UNCHANGED <<lifecycle, mounts, closedConnecting, location, triggerEvent, received,
                 dispatched, uncaught>>

\* the page's location changes between two attempts (same host)
Navigate ==
  /\ \E loc \in Locations \ {location} : location' = loc
  /\ lastAttempt' = NoAttempt
  /\ UNCHANGED <<ws, readyState, url, closeCalled, timer, elapsed, lifecycle, mounts,
                 closedConnecting, triggerEvent, received, dispatched, uncaught, thrown>>

\* a step that is not counted
Idle == UNCHANGED tally

\* a step that is counted, by what it did to the sockets and the timeouts:
\* sockets that entered CONNECTING (new WebSocket), sockets that became CLOSED
\* (close events), timeouts armed and timeouts that ran
Observe ==
  /\ tally' =
       [constructed |-> tally.constructed + Cardinality(
          {h \in SocketIds : readyState[h] # "CONNECTING" /\ readyState'[h] = "CONNECTING"}),
        closes |-> tally.closes + Cardinality(
          {h \in SocketIds : readyState[h] # "CLOSED" /\ readyState'[h] = "CLOSED"}),
        armed |-> tally.armed + Cardinality(
          {h \in SocketIds : timer[h] = NoTimer /\ timer'[h] # NoTimer}),
        fired |-> tally.fired + Cardinality(
          {h \in SocketIds : timer[h] # NoTimer /\ timer'[h] = NoTimer})]
  /\ tally'.closes <= MaxCloseEvents

Next ==
  \/ connectedCallback /\ Idle
  \/ disconnectedCallback /\ Idle
  \/ \E h \in SocketIds : SocketOpened(h) /\ Idle
  \/ \E h \in SocketIds : ConnectionFailed(h) /\ Idle
  \/ \E h \in SocketIds : ConnectionLost(h) /\ Idle
  \/ \E h \in SocketIds : CloseCompleted(h) /\ Idle
  \/ \E h \in SocketIds : \E raw \in Frames : MessageEvent(h, raw) /\ Idle
  \/ Tick /\ Idle
  \/ \E h \in SocketIds : TimerFire(h) /\ Idle
  \/ Navigate /\ Idle

Spec == Init /\ [][Next]_vars

\* The steps that decide whether the element reconnects.  Frames and page
\* navigation change no socket and no timeout, so the reconnection loop is
\* checked for progress without them.
ReconnectNext ==
  \/ connectedCallback /\ Idle
  \/ disconnectedCallback /\ Idle
  \/ \E h \in SocketIds : SocketOpened(h) /\ Idle
  \/ \E h \in SocketIds : ConnectionFailed(h) /\ Idle
  \/ \E h \in SocketIds : ConnectionLost(h) /\ Idle
  \/ \E h \in SocketIds : CloseCompleted(h) /\ Idle
  \/ Tick /\ Idle
  \/ \E h \in SocketIds : TimerFire(h) /\ Idle

\* The same steps with the sockets and timeouts counted, for at most
\* MaxCloseEvents close events.
CountNext ==
  \/ connectedCallback /\ Observe
  \/ disconnectedCallback /\ Observe
  \/ \E h \in SocketIds : SocketOpened(h) /\ Observe
  \/ \E h \in SocketIds : ConnectionFailed(h) /\ Observe
  \/ \E h \in SocketIds : ConnectionLost(h) /\ Observe
  \/ \E h \in SocketIds : CloseCompleted(h) /\ Observe
  \/ Tick /\ Observe
  \/ \E h \in SocketIds : TimerFire(h) /\ Observe

CountSpec == Init /\ [][CountNext]_vars

\* the event loop runs a due timeout, and time passes
LiveSpec ==
  /\ Init
  /\ [][ReconnectNext]_vars
  /\ WF_vars(Tick /\ Idle)
  /\ \A h \in SocketIds : WF_vars(TimerFire(h) /\ Idle)

TypeOK ==
  /\ ws \in SocketIds \cup {null}
  /\ readyState \in [SocketIds -> {"NONE", "CONNECTING", "OPEN", "CLOSING", "CLOSED"}]
  /\ closeCalled \subseteq SocketIds
  /\ timer \in [SocketIds -> {NoTimer} \cup 0..ReconnectDelay]
  /\ lifecycle \in {"created", "connected", "disconnected"}
  /\ mounts \in 0..MaxMounts
  /\ location \in Locations
  /\ Len(received) <= MaxFrames
  /\ lastAttempt.by \in {"none", "mount", "timer"}

\* ------------------------------------------------------------- claims ----
\* sockets of the element that are not fully closed
LiveSockets == {h \in SocketIds : readyState[h] \in {"CONNECTING", "OPEN", "CLOSING"}}

\* C1 (P2): once disconnectedCallback has returned, and until the element is
\* mounted again, no step constructs a WebSocket.
C1_NoAttemptAfterClose ==
  lifecycle = "disconnected" => lastAttempt.by = "none"

\* C2 (P1): in every reachable state at most one socket of the element is
\* CONNECTING, OPEN or CLOSING.
C2_AtMostOneLiveSocket ==
  Cardinality(LiveSockets) <= 1

\* C3: while the element stays disconnected after disconnectedCallback, no
\* step dispatches a MesopEvent.
C3_NoDispatchAfterClose ==
  [][(lifecycle = "disconnected" /\ lifecycle' = "disconnected")
       => dispatched' = dispatched]_vars

\* C4: after a disconnectedCallback that found this.ws still CONNECTING, and
\* while the element stays disconnected, the message handler is not invoked
\* and no reconnection timeout runs.
C4_CloseWhileConnectingIsFinal ==
  [][(closedConnecting /\ lifecycle' = "disconnected")
       => (received' = received /\ lastAttempt'.by # "timer")]_vars

\* what JSON.parse makes of each frame the server may send, written out
MalformedFrames == {NotJsonFrame}
WellFormedFrames == {PingFrame, NullFrame}
Payload(raw) ==
  IF raw = PingFrame
  THEN [kind |-> "object", text |-> "",
        members |-> << <<"type", [kind |-> "string", text |-> "ping", members |-> <<>>]>> >>]
  ELSE [kind |-> "null", text |-> "null", members |-> <<>>]

\* C5 (P3): a step that hands a malformed frame to onmessage dispatches
\* nothing and leaves this.ws, every socket's readyState and every timeout as
\* they were; and a well-formed frame handed over after a malformed one is
\* dispatched with its decoded payload.
C5_MalformedFrameIsolated ==
  [][\A raw \in Frames :
       received' = Append(received, raw) =>
         /\ raw \in MalformedFrames =>
              /\ dispatched' = dispatched
              /\ UNCHANGED <<ws, readyState, url, closeCalled, timer, elapsed,
                             lifecycle>>
         /\ (/\ raw \in WellFormedFrames
             /\ \E i \in 1..Len(received) : received[i] \in MalformedFrames) =>
              dispatched' =
                Append(dispatched, [type |-> triggerEvent, action |-> Payload(raw)])]_vars

\* C5 witness: on the first connection a malformed frame arrived, then a
\* well-formed one, and only the second was dispatched.
C5_Witness ==
  /\ received = <<NotJsonFrame, PingFrame>>
  /\ Len(dispatched) = 1
  /\ mounts = 1
  /\ lifecycle = "connected"
  /\ readyState[1] = "OPEN"
  /\ closeCalled = {}

C7_RetriesForever ==
  /\ \A h \in SocketIds :
       (readyState[h] = "CLOSED" /\ lifecycle = "connected")
         ~> \/ (ws = h /\ readyState[h] = "CONNECTING" /\ lastAttempt.by = "timer")
            \/ lifecycle # "connected"
  /\ []<>(lifecycle = "connected" /\ \E h \in SocketIds : readyState[h] = "CLOSED")
       => []<>(lastAttempt.by = "timer")

\* C7 witness: the socket of the element's second mount was closed without a
\* teardown and the mounted element has just made the attempt that replaces it.
C7_Witness ==
  /\ lastAttempt.by = "timer"
  /\ lifecycle = "connected"
  /\ mounts = 2
  /\ ws = 2 /\ readyState[2] = "CONNECTING"
  /\ 2 \notin closeCalled

\* the notifications a log of frames calls for: one per well-formed frame,
\* in order, tagged with `name`
RECURSIVE Notifications(_, _)
Notifications(log, name) ==
  IF log = <<>> THEN <<>>
  ELSE LET rest == Notifications(SubSeq(log, 1, Len(log) - 1), name)
           raw == log[Len(log)]
       IN  IF raw \in WellFormedFrames
           THEN Append(rest, [type |-> name, action |-> Payload(raw)])
           ELSE rest

\* C8: the MesopEvents dispatched are exactly one per well-formed frame
\* received, in the order of arrival, each carrying the decoded payload as
\* action and the triggerEvent name as type.
C8_OneNotificationPerFrame ==
  dispatched = Notifications(received, triggerEvent)

\* C8 witness: two different well-formed frames arrived and both were
\* dispatched.
C8_Witness ==
  /\ received = <<PingFrame, NullFrame>>
  /\ Len(dispatched) = 2
  /\ triggerEvent = "on_update"

\* C9: no exception leaves connectedCallback, and the close event of a socket
\* that failed while CONNECTING does what the close event of an OPEN socket
\* does: the socket is CLOSED and a timeout of ReconnectDelay ms is armed.
C9_FailuresTakeTheClosePath ==
  /\ [](~thrown)
  /\ [][\A h \in SocketIds : \A from \in {"CONNECTING", "OPEN"} :
          (readyState[h] = from /\ readyState'[h] = "CLOSED") =>
            /\ timer'[h] = ReconnectDelay /\ elapsed'[h] = 0
            /\ UNCHANGED <<ws, lifecycle, dispatched, uncaught, thrown>>]_vars

\* C9 witness: the first attempt of the mounted element ended without any
\* frame or teardown, and its retry is armed.
C9_Witness ==
  /\ mounts = 1
  /\ lifecycle = "connected"
  /\ readyState[1] = "CLOSED"
  /\ timer[1] = ReconnectDelay
  /\ closeCalled = {}
  /\ received = <<>>
  /\ ~thrown

\* C10: the socket an attempt constructs has the URL <scheme>//<host>/__ws__
\* with scheme wss: when the page's protocol is https: at that moment and ws:
\* otherwise, and the page's host.
C10_EndpointMirrorsPage ==
  lastAttempt.by # "none" =>
    /\ location.protocol = "https:" => url.protocol = "wss:"
    /\ location.protocol # "https:" => url.protocol = "ws:"
    /\ url.host = location.host /\ url.host \in PageHosts
    /\ url.pathname = "/__ws__"
    /\ ws # null /\ readyState[ws] = "CONNECTING"

\* C10 witness: a timeout reconnected after the page went from http: to
\* https:, and the new socket uses wss: where the old one used ws:.
C10_Witness ==
  /\ lastAttempt.by = "timer"
  /\ lastAttempt.was.protocol = "ws:"
  /\ url.protocol = "wss:"
  /\ location.protocol = "https:"

\* C11: a step constructs a WebSocket only when this.ws is null (the element
\* never connected) or the socket in this.ws, the one constructed before, is
\* CLOSED.
C11_AttemptOnlyAfterFullClose ==
  [][lastAttempt'.by # "none" => (ws = null \/ readyState[ws] = "CLOSED")]_vars

\* timeouts armed by an onclose that have not run yet
PendingTimers == {h \in SocketIds : timer[h] # NoTimer}

\* C12: in every reachable state at most one reconnection timeout is pending,
\* and none is pending while a socket is CONNECTING or OPEN.
C12_SinglePendingTimer ==
  /\ Cardinality(PendingTimers) <= 1
  /\ (\E h \in SocketIds : readyState[h] \in {"CONNECTING", "OPEN"}) => PendingTimers = {}

\* C13: no exception leaves the message callback, whatever frame arrives.
C13_DecodeErrorStaysInside ==
  uncaught = 0

\* C14: in every reachable state every socket that is CONNECTING, OPEN or
\* CLOSING is the one stored in this.ws.
C14_SlotOwnsEveryLiveSocket ==
  \A h \in SocketIds :
    readyState[h] \in {"CONNECTING", "OPEN", "CLOSING"} => ws = h

\* C16: as long as connectedCallback was never called, this.ws is null, no
\* socket exists, no close() was issued and no exception was raised, also
\* after a disconnectedCallback; and once connectedCallback was called,
\* this.ws is not null.
C16_TeardownBeforeMountIsNoOp ==
  /\ mounts = 0 =>
       /\ ws = null
       /\ \A h \in SocketIds : readyState[h] = "NONE" /\ timer[h] = NoTimer
       /\ closeCalled = {}
       /\ ~thrown
  /\ mounts > 0 => ws # null /\ readyState[ws] # "NONE"

\* C16 witness: disconnectedCallback has run on an element never mounted.
C16_Witness ==
  /\ lifecycle = "disconnected"
  /\ mounts = 0
  /\ ws = null
  /\ ~thrown

\* C15: in every reachable state the sockets constructed so far are as many
\* as the connectedCallback calls plus the timeouts that have run; every close
\* event armed one timeout, and each of those timeouts is either still pending
\* or has run once, so no close event has more than one attempt to its name.
C15_AttemptsAccountedFor ==
  /\ tally.constructed = mounts + tally.fired
  /\ tally.armed = tally.closes
  /\ tally.closes = tally.fired + Cardinality(PendingTimers)

\* C15 witness: two mounts and at least two timeouts that ran have
\* constructed sockets, and a further close event has its timeout pending.
C15_Witness ==
  /\ mounts = 2
  /\ tally.fired >= 2
  /\ tally.constructed >= 4
  /\ tally.closes > tally.fired

=============================================================================
